---- MODULE Spec2Model ----
(***************************************************************************)
(* Model of transformTypes (src/lib/transform-types.ts): the options are   *)
(* validated, the source text is parsed, the tree is walked collecting     *)
(* `export type` declarations and the enum / composite-type reference      *)
(* tables, the collected strings are filtered and joined, and the          *)
(* qualified references are rewritten by sequential replaceAll calls.      *)
(*                                                                         *)
(* Text is a sequence of string fragments whose concatenation is the       *)
(* JavaScript string: an opener `Database["s"]["Enums"]["`, a closer `"]`, *)
(* `Record<`, an identifier, or other text.  String.includes and           *)
(* String.replaceAll are modelled on these sequences.                      *)
(***************************************************************************)
EXTENDS Integers, Sequences, FiniteSets, TLC

VARIABLES
    args,                 \* the raw options value passed by the caller
    opts,                 \* the parsed options (defaults applied), line 46
    sourceFile,           \* top-level declarations of the parsed text, line 58
    typeStrings,          \* line 64 (each entry also remembers its source position)
    enumNames,            \* line 65
    compositeTypeNames,   \* line 66
    kept,                 \* typeStrings.filter(...), line 244-245
    parsedTypes,          \* line 244
    substituted,          \* reference-table entries whose replaceAll changed the text
    pc,                   \* position in transformTypes
    i,                    \* index of the next top-level declaration to visit
    k,                    \* index of the next reference-table entry to apply
    error,                \* the error raised, if any
    result                \* the returned text

vars == <<args, opts, sourceFile, typeStrings, enumNames, compositeTypeNames,
          kept, parsedTypes, substituted, pc, i, k, error, result>>

----------------------------------------------------------------------------
(* Values *)

Undefined == "<undefined>"
NotAString == "<not a string>"
NotABoolean == "<not a boolean>"
NotAFunction == "<not a function>"
NoError == [name |-> "none", at |-> "none"]
ZodError(at) == [name |-> "ZodError", at |-> at]
NotParsed == [parsed |-> FALSE]
NoResult == "<no result>"

DQ == "\""
SQ == "'"
Quotes == {DQ, SQ}

\* `Database["<schema>"]["<category>"]["` up to the name (lines 250, 254, 261, 265)
Opener(q, schema, category) ==
    "Database[" \o q \o schema \o q \o "][" \o q \o category \o q \o "][" \o q

\* `"]` after the name
Closer(q) == q \o "]"

\* the search string of one replaceAll call: lines 250, 254, 261, 265
Key(q, schema, category, name) ==
    <<Opener(q, schema, category), name, Closer(q)>>

RecordLt == "Record<"
ExportType == "export type "
Equals == " = "
Separator == ";\n"

Ordinal == <<"1", "2", "3", "4", "5", "6", "7", "8", "9">>

\* identifiers of the model whose text starts with `number`
NumberPrefixed ==
    {"number", "numberish"} \cup {"numberish_" \o Ordinal[n] : n \in 1..Len(Ordinal)}

----------------------------------------------------------------------------
(* String operations on fragment sequences *)

RECURSIVE Concat(_)
Concat(ss) == IF ss = <<>> THEN <<>> ELSE Head(ss) \o Concat(Tail(ss))

FlatMapIdx(s, F(_, _)) == Concat([x \in 1..Len(s) |-> F(s[x], x)])

\* String.prototype.includes for a fragment sequence
Includes(s, pat) ==
    \E p \in 1..(Len(s) - Len(pat) + 1) : SubSeq(s, p, p + Len(pat) - 1) = pat

\* s.includes('Record<number'), line 245
IncludesRecordNumber(s) ==
    \E p \in 1..(Len(s) - 1) : s[p] = RecordLt /\ s[p + 1] \in NumberPrefixed

\* String.prototype.replaceAll with a string pattern: leftmost, non-overlapping
RECURSIVE ReplaceFirstOnly(_, _, _)
ReplaceFirstOnly(s, pat, rep) ==
    IF Len(s) < Len(pat) THEN s
    ELSE IF SubSeq(s, 1, Len(pat)) = pat
         THEN rep \o SubSeq(s, Len(pat) + 1, Len(s))
         ELSE <<Head(s)>> \o ReplaceFirstOnly(Tail(s), pat, rep)

RECURSIVE ReplaceAll(_, _, _)
ReplaceAll(s, pat, rep) ==
    IF Len(s) < Len(pat) THEN s
    ELSE IF SubSeq(s, 1, Len(pat)) = pat
         THEN rep \o ReplaceAll(SubSeq(s, Len(pat) + 1, Len(s)), pat, rep)
         ELSE <<Head(s)>> \o ReplaceAll(Tail(s), pat, rep)

\* Array.prototype.join(';\n') over the texts, line 246
RECURSIVE Join(_)
Join(ss) ==
    IF ss = <<>> THEN <<>>
    ELSE IF Len(ss) = 1 THEN ss[1]
    ELSE ss[1] \o <<Separator>> \o Join(Tail(ss))

----------------------------------------------------------------------------
(* The syntax tree produced by ts.createSourceFile.  A node has a kind, a   *)
(* name (what getNodeName returns), whether its name is an Identifier, its  *)
(* source text (getText) and its children in source order (forEachChild;    *)
(* the name Identifier child, which no kind test accepts, is left out).     *)

Node(kind, name, idName, text, kids) ==
    [kind |-> kind, name |-> name, idName |-> idName, text |-> text, kids |-> kids]

Prop(name, type) == Node("PropertySignature", name, TRUE, <<>>, <<type>>)
StringProp(name, type) == Node("PropertySignature", name, FALSE, <<>>, <<type>>)
Method(name) == Node("MethodSignature", name, TRUE, <<>>, <<>>)
TypeLit(members, text) == Node("TypeLiteral", Undefined, FALSE, text, members)
Leaf(kind, text) == Node(kind, Undefined, FALSE, text, <<>>)

getNodeName(n) == n.name

Kids(n, kinds) == SelectSeq(n.kids, LAMBDA c : c.kind \in kinds)

\* n.forEachChild(isTypeLiteralNode => n.forEachChild(...)): the members visited
Members(n) == Concat([x \in 1..Len(Kids(n, {"TypeLiteral"})) |->
                         Kids(n, {"TypeLiteral"})[x].kids])

----------------------------------------------------------------------------
(* Options: transformTypesOptionsSchema, lines 5-38.  A z.function() schema *)
(* accepts any function at parse time and hands back a wrapper that checks  *)
(* the arguments and the returned value on every call.                      *)

FlagNames == {"relationships", "updates", "inserts", "deletes"}
FormatterNames == {"enumFormatter", "compositeTypeFormatter",
                   "functionFormatter", "tableOrViewFormatter"}

\* z.boolean().optional().default(false), lines 34-37
FlagAccepted(v) == v \in {"true", "false", Undefined}
FlagValue(v) == v = "true"

\* z.function()...default(...), lines 24-33: only `typeof v === 'function'` is checked
FormatterAccepted(v) == v # NotAFunction

ValidOptions(a) ==
    /\ a.sourceText.isString
    /\ \A f \in FlagNames : FlagAccepted(a[f])
    /\ \A f \in FormatterNames : FormatterAccepted(a[f])

\* the parsed options: defaults filled in, formatters wrapped
ParsedOptions(a) ==
    [parsed |-> TRUE,
     sourceText |-> a.sourceText,
     schema |-> IF a.schema = Undefined THEN "public" ELSE a.schema,
     enumFormatter |-> IF a.enumFormatter = Undefined THEN "default" ELSE a.enumFormatter,
     compositeTypeFormatter |-> IF a.compositeTypeFormatter = Undefined
                                THEN "default" ELSE a.compositeTypeFormatter,
     functionFormatter |-> IF a.functionFormatter = Undefined
                           THEN "default" ELSE a.functionFormatter,
     tableOrViewFormatter |-> IF a.tableOrViewFormatter = Undefined
                              THEN "default" ELSE a.tableOrViewFormatter,
     relationships |-> FlagValue(a.relationships),
     updates |-> FlagValue(a.updates),
     inserts |-> FlagValue(a.inserts),
     deletes |-> FlagValue(a.deletes)]

\* What the caller's enumFormatter returns on its n-th call.
\*   default        (name) => name                                  line 24
\*   prefix         (name) => 'E_' + name
\*   numbered       (name) => name + '_' + (++calls)                 (keeps state)
\*   qualify        (name) => `Database["public"]["Enums"]["${name}"]`
\*   extraParameter (name, extra) => name                            (wrong arity)
\*   returnsNumber  (name) => 42
enumFormatterResult(kind, name, n) ==
    CASE kind = "default" -> <<name>>
      [] kind = "prefix" -> <<"E_" \o name>>
      [] kind = "numbered" -> <<name \o "_" \o Ordinal[n]>>
      [] kind = "qualify" -> Key(DQ, "public", "Enums", name)
      [] kind = "extraParameter" -> <<name>>
      [] OTHER -> NotAString

\*   default  (name) => name, line 26;  prefix  (name) => 'C_' + name
compositeTypeFormatterResult(kind, name) ==
    CASE kind = "default" -> <<name>>
      [] kind = "prefix" -> <<"C_" \o name>>
      [] OTHER -> NotAString

\*   default  (name, type) => `${name}${type}`, line 29
functionFormatterResult(kind, name, type) ==
    CASE kind = "default" -> <<name \o type>>
      [] kind = "snake" -> <<name \o "_" \o type>>
      [] OTHER -> NotAString

\*   default  (name, operation) => `${name}${operation}`, line 32
tableOrViewFormatterResult(kind, name, operation) ==
    CASE kind = "default" -> <<name \o operation>>
      [] kind = "snake" -> <<operation \o "_" \o name>>
      [] OTHER -> NotAString

----------------------------------------------------------------------------
(* The tree walk, lines 68-242.  An event is one typeStrings.push of the    *)
(* walk before its formatter is called; `from` is the source position       *)
(* <<top-level index, schema member, grouping, entry, sub-entry>>.          *)

Event(cat, name, sub, body, from) ==
    [cat |-> cat, name |-> name, sub |-> sub, body |-> body, from |-> from]

IsProp(n) == n.kind = "PropertySignature"

\* lines 91-99
SkippedSwapped(operation) ==
    \/ operation = "Relationships" /\ ~opts.relationships
    \/ operation = "Insert" /\ ~opts.updates
    \/ operation = "Update" /\ ~opts.inserts
    \/ operation = "Delete" /\ ~opts.deletes

Skipped(operation) ==
    \/ operation = "Relationships" /\ ~opts.relationships
    \/ operation = "Insert" /\ ~opts.inserts
    \/ operation = "Update" /\ ~opts.updates
    \/ operation = "Delete" /\ ~opts.deletes

\* lines 88-116
OperationEvents(tableOrViewName, n, path) ==
    IF ~IsProp(n) THEN <<>>
    ELSE LET operation == getNodeName(n)
             bodies == Kids(n, {"TypeLiteral", "TupleType"})
         IN IF Skipped(operation) THEN <<>>
            ELSE IF operation \in {Undefined, ""} THEN <<>>
            ELSE [x \in 1..Len(bodies) |->
                     Event("table", tableOrViewName, operation, bodies[x].text, path)]

\* lines 78-124
TableEvents(n, path) ==
    FlatMapIdx(Members(n), LAMBDA e, ei :
        IF ~IsProp(e) THEN <<>>
        ELSE FlatMapIdx(Members(e), LAMBDA o, oi :
                 OperationEvents(getNodeName(e), o, path \o <<ei, oi>>)))

\* lines 125-163
EnumEvents(n, path) ==
    FlatMapIdx(Members(n), LAMBDA e, ei :
        IF ~IsProp(e) THEN <<>>
        ELSE LET bodies == Kids(e, {"UnionType", "LiteralType"})
             IN [x \in 1..Len(bodies) |->
                    Event("enum", getNodeName(e), "", bodies[x].text, path \o <<ei, 0>>)])

\* lines 164-189
CompositeTypeEvents(n, path) ==
    FlatMapIdx(Members(n), LAMBDA e, ei :
        IF ~IsProp(e) THEN <<>>
        ELSE LET bodies == Kids(e, {"TypeLiteral"})
             IN [x \in 1..Len(bodies) |->
                    Event("composite", getNodeName(e), "", bodies[x].text,
                          path \o <<ei, 0>>)])

\* lines 190-219
FunctionEvents(n, path) ==
    FlatMapIdx(Members(n), LAMBDA e, ei :
        IF ~IsProp(e) THEN <<>>
        ELSE FlatMapIdx(Members(e), LAMBDA a, ai :
                 IF ~IsProp(a) THEN <<>>
                 ELSE LET bodies == Kids(a, {"TypeReference"})
                      IN [x \in 1..Len(bodies) |->
                             Event("function", getNodeName(e), getNodeName(a),
                                   bodies[x].text, path \o <<ei, ai>>)]))

GroupRank(name) ==
    CASE name \in {"Tables", "Views"} -> 1
      [] name = "Enums" -> 2
      [] name = "CompositeTypes" -> 3
      [] name = "Functions" -> 4
      [] OTHER -> 5

\* lines 77-220: one grouping of the selected schema
GroupEvents(n, path) ==
    IF ~(IsProp(n) /\ n.idName) THEN <<>>
    ELSE CASE n.name \in {"Tables", "Views"} -> TableEvents(n, path)
           [] n.name = "Enums" -> EnumEvents(n, path)
           [] n.name = "CompositeTypes" -> CompositeTypeEvents(n, path)
           [] n.name = "Functions" -> FunctionEvents(n, path)
           [] OTHER -> <<>>

\* lines 76-221: the groupings of a schema, visited in source order
SchemaGroupsRanked(n, path) ==
    Concat([r \in 1..4 |->
        FlatMapIdx(Members(n), LAMBDA g, gi :
            IF GroupRank(g.name) = r THEN GroupEvents(g, path \o <<gi>>) ELSE <<>>)])

SchemaGroups(n, path) ==
    FlatMapIdx(Members(n), LAMBDA g, gi : GroupEvents(g, path \o <<gi>>))

\* lines 69-75: processDatabase, the schema match
processDatabaseAnySchema(n, path) ==
    IF IsProp(n) THEN SchemaGroups(n, path) ELSE <<>>

processDatabase(n, path) ==
    IF IsProp(n) /\ getNodeName(n) = opts.schema
    THEN SchemaGroups(n, path)
    ELSE <<>>

\* lines 229-237: the members handed to processDatabase
DatabaseMembers(n) ==
    IF /\ n.kind = "TypeAliasDeclaration"
       /\ n.kids[1].kind = "TypeLiteral"
       /\ n.name = "Database"
    THEN n.kids[1].kids
    ELSE IF n.kind = "InterfaceDeclaration" /\ n.name = "Database"
         THEN n.kids
         ELSE <<>>

\* lines 239-241
JsonEvents(n, idx) ==
    IF n.kind = "TypeAliasDeclaration" /\ n.name = "Json"
    THEN <<Event("json", "Json", "", n.text, <<idx, 0, 0, 0, 0>>)>>
    ELSE <<>>

\* lines 68-242: the callback of sourceFile.forEachChild
TopLevelEvents(n, idx) ==
    FlatMapIdx(DatabaseMembers(n), LAMBDA m, mi : processDatabase(m, <<idx, mi>>))
    \o JsonEvents(n, idx)

\* `export type ${formattedName} = ${n.getText(sourceFile)}`
Declaration(formattedName, body) ==
    <<ExportType>> \o formattedName \o <<Equals>> \o body

Collected(text, ev) == [text |-> text, from |-> ev.from, cat |-> ev.cat]

Entry(name, formattedName) == [name |-> name, formattedName |-> formattedName]

\* enumNames.push / compositeTypeNames.push, lines 139-142, 153-156, 179-182
PushOverwrite(table, entry) ==
    IF \E x \in 1..Len(table) : table[x].name = entry.name
    THEN [x \in 1..Len(table) |->
             IF table[x].name = entry.name THEN entry ELSE table[x]]
    ELSE Append(table, entry)

Push(table, entry) == Append(table, entry)

\* the formatter call of one push: the name and what the wrapper lets through
FormattedName(ev, st) ==
    CASE ev.cat = "table" ->
             tableOrViewFormatterResult(opts.tableOrViewFormatter, ev.name, ev.sub)
      [] ev.cat = "enum" ->
             enumFormatterResult(opts.enumFormatter, ev.name, Len(st.en) + 1)
      [] ev.cat = "composite" ->
             compositeTypeFormatterResult(opts.compositeTypeFormatter, ev.name)
      [] ev.cat = "function" ->
             functionFormatterResult(opts.functionFormatter, ev.name, ev.sub)

\* the pushes of one event; a formatter result that is not a string makes the
\* z.function() wrapper throw
EmitOne(ev, st) ==
    IF ev.cat = "json"
    THEN [st EXCEPT !.ts = Append(@, Collected(ev.body, ev))]
    ELSE LET formattedName == FormattedName(ev, st)
         IN IF formattedName = NotAString
            THEN [st EXCEPT !.err = ZodError("walk")]
            ELSE LET pushed == [st EXCEPT !.ts = Append(@,
                                   Collected(Declaration(formattedName, ev.body), ev))]
                 IN CASE ev.cat = "enum" ->
                            [pushed EXCEPT !.en = Push(@, Entry(ev.name, formattedName))]
                      [] ev.cat = "composite" ->
                            [pushed EXCEPT !.cn = Push(@, Entry(ev.name, formattedName))]
                      [] OTHER -> pushed

RECURSIVE Emit(_, _)
Emit(events, st) ==
    IF events = <<>> \/ st.err # NoError THEN st
    ELSE Emit(Tail(events), EmitOne(Head(events), st))

----------------------------------------------------------------------------
(* Inputs.  A scenario picks the shape of the source text and the options;  *)
(* Source builds the tree ts.createSourceFile yields for that text.         *)

MaxTop == 2       \* top-level declarations in the source text
MaxSchemas == 2   \* members of the Database declaration
MaxGroups == 3    \* groupings inside a schema
MaxEnums == 2     \* entries of the Enums grouping

RECURSIVE SeqsUpTo(_, _)
SeqsUpTo(S, n) ==
    IF n = 0 THEN {<<>>}
    ELSE SeqsUpTo(S, n - 1) \cup
         {Append(s, x) : s \in {t \in SeqsUpTo(S, n - 1) : Len(t) = n - 1}, x \in S}

EnumRef(q) == Key(q, "public", "Enums", "mood")

RowBodies ==
    { <<"{ id: string }">>,
      <<"{ m: ">> \o EnumRef(DQ) \o <<"; n: ">> \o EnumRef(SQ) \o <<" }">>,
      <<"{ a: ">> \o Key(DQ, "public", "CompositeTypes", "addr") \o <<" }">>,
      <<"{ m: ">> \o Key(DQ, "auth", "Enums", "mood") \o <<" }">>,
      <<"{ r: ", RecordLt, "number", ", string> }">>,
      <<"{ r: ", RecordLt>> \o Key(DQ, "public", "Enums", "numberish")
          \o <<", string> }">>,
      <<"{ s: '", Opener(DQ, "public", "Enums")>> \o EnumRef(DQ)
          \o <<Closer(DQ), "' }">> }

TableNode(choice, row) ==
    IF choice = "users"
    THEN Prop("users", TypeLit(
            << Prop("Row", TypeLit(<<>>, row)),
               Prop("Insert", TypeLit(<<>>, row)),
               Prop("Update", TypeLit(<<>>, row)),
               Prop("Delete", TypeLit(<<>>, <<"{ id: string }">>)),
               Prop("Relationships", Leaf("TupleType", <<"[]">>)) >>, <<>>))
    ELSE Prop("orders", TypeLit(
            << Prop("Row", Leaf("Keyword", <<"never">>)),
               Prop("Insert", Leaf("TupleType", <<"[string]">>)),
               Prop(Undefined, TypeLit(<<>>, <<"{ c: string }">>)),
               Method("Update"),
               Prop("Relationships", TypeLit(<<>>, <<"{ r: string }">>)),
               Prop("Archive", TypeLit(<<>>, row)) >>, <<>>))

EnumNode(choice) ==
    CASE choice = "mood" ->
             Prop("mood", Leaf("UnionType", <<"\"happy\" | \"sad\"">>))
      [] choice = "moodLiteral" ->
             Prop("mood", Leaf("LiteralType", <<"\"fine\"">>))
      [] choice = "numberish" ->
             Prop("numberish", Leaf("UnionType", <<"\"one\" | \"two\"">>))
      [] OTHER -> Prop("empty", Leaf("Keyword", <<"never">>))

EnumChoices == {"mood", "moodLiteral", "numberish", "empty"}

CompositeNode(choice) ==
    CASE choice = "addr" ->
             Prop("addr", TypeLit(<<>>, <<"{ street: string }">>))
      [] choice = "addrRecord" ->
             Prop("addr", TypeLit(<<>>, <<"{ r: ", RecordLt, "number", ", string> }">>))
      [] OTHER ->
             Prop("addr", TypeLit(<<>>, <<"{ m: ">> \o EnumRef(SQ) \o <<" }">>))

CompositeLists == {<<>>, <<"addr">>, <<"addrRecord">>, <<"addrRef">>}

FunctionNodes ==
    << Prop("search", TypeLit(
          << Prop("Args", TypeLit(<<>>, <<"{ q: string }">>)),
             Prop("Returns", Leaf("TypeReference",
                  <<"Array<">> \o EnumRef(DQ) \o <<">">>)) >>, <<>>)) >>

GroupChoices == {"Tables", "Views", "Enums", "CompositeTypes", "Functions", "'Enums'"}

GroupNode(choice, sc) ==
    CASE choice \in {"Tables", "Views"} ->
             Prop(choice, TypeLit([x \in 1..Len(sc.tables) |->
                                      TableNode(sc.tables[x], sc.row)], <<>>))
      [] choice = "Enums" ->
             Prop(choice, TypeLit([x \in 1..Len(sc.enums) |-> EnumNode(sc.enums[x])], <<>>))
      [] choice = "CompositeTypes" ->
             Prop(choice, TypeLit([x \in 1..Len(sc.composites) |->
                                      CompositeNode(sc.composites[x])], <<>>))
      [] choice = "Functions" -> Prop(choice, TypeLit(FunctionNodes, <<>>))
      [] OTHER ->
             StringProp("Enums", TypeLit([x \in 1..Len(sc.enums) |->
                                             EnumNode(sc.enums[x])], <<>>))

SchemaChoices == {"public", "auth", "public()"}

SchemaNode(choice, sc) ==
    IF choice = "public()" THEN Method("public")
    ELSE Prop(choice, TypeLit([x \in 1..Len(sc.order) |-> GroupNode(sc.order[x], sc)], <<>>))

DatabaseMemberNodes(sc) == [x \in 1..Len(sc.schemas) |-> SchemaNode(sc.schemas[x], sc)]

JsonText == <<"export type Json = string | number | { [key: string]: Json }">>

TopChoices == {"alias", "interface", "aliasOfReference", "Json", "JsonRecord",
               "interfaceJson"}

TopNode(choice, sc) ==
    CASE choice = "alias" ->
             Node("TypeAliasDeclaration", "Database", TRUE, <<>>,
                  <<TypeLit(DatabaseMemberNodes(sc), <<>>)>>)
      [] choice = "interface" ->
             Node("InterfaceDeclaration", "Database", TRUE, <<>>, DatabaseMemberNodes(sc))
      [] choice = "aliasOfReference" ->
             Node("TypeAliasDeclaration", "Database", TRUE, <<>>,
                  <<Leaf("TypeReference", <<"Generated">>)>>)
      [] choice = "Json" ->
             Node("TypeAliasDeclaration", "Json", TRUE, JsonText,
                  <<Leaf("UnionType", <<>>)>>)
      [] choice = "JsonRecord" ->
             Node("TypeAliasDeclaration", "Json", TRUE,
                  <<"export type Json = string | ", RecordLt, "number", ", Json>">>,
                  <<Leaf("UnionType", <<>>)>>)
      [] choice = "JsonWithReference" ->
             Node("TypeAliasDeclaration", "Json", TRUE,
                  <<"export type Json = string | ">> \o EnumRef(DQ),
                  <<Leaf("UnionType", <<>>)>>)
      [] OTHER ->
             Node("InterfaceDeclaration", "Json", TRUE,
                  <<"export interface Json { [key: string]: Json }">>, <<>>)

Source(sc) == [x \in 1..Len(sc.top) |-> TopNode(sc.top[x], sc)]

\* the scenario every family varies
Base ==
    [top |-> <<"Json", "alias">>, schemas |-> <<"public">>, order |-> <<"Tables", "Enums">>,
     tables |-> <<"users">>, row |-> <<"{ m: ">> \o EnumRef(DQ) \o <<" }">>,
     enums |-> <<"mood">>, composites |-> <<>>,
     isString |-> TRUE, schema |-> Undefined,
     enumFormatter |-> Undefined, compositeTypeFormatter |-> Undefined,
     functionFormatter |-> Undefined, tableOrViewFormatter |-> Undefined,
     relationships |-> Undefined, updates |-> Undefined,
     inserts |-> Undefined, deletes |-> Undefined]

FlagChoices == {"true", "false"}

\* which sub-operations are collected: every flag combination
GatingScenarios ==
    {[Base EXCEPT !.relationships = r, !.updates = u, !.inserts = n, !.deletes = d,
                  !.tableOrViewFormatter = f, !.tables = t, !.order = o,
                  !.top = p] :
        r \in FlagChoices, u \in FlagChoices, n \in FlagChoices, d \in FlagChoices,
        f \in {Undefined, "snake"}, t \in {<<"users">>, <<"orders">>, <<"users", "orders">>},
        o \in {<<"Tables", "Enums">>, <<"Enums", "Views">>},
        p \in {<<"Json", "alias">>, <<"interface", "JsonWithReference">>}}

\* the order of the groupings inside the schema
OrderScenarios ==
    {[Base EXCEPT !.order = o, !.composites = <<"addr">>, !.updates = u] :
        o \in SeqsUpTo(GroupChoices, MaxGroups), u \in FlagChoices}

\* references, formatters and the filter
RewriteScenarios ==
    {[Base EXCEPT !.order = <<"Tables", "Enums", "CompositeTypes", "Functions">>,
                  !.row = b, !.enums = e, !.composites = c,
                  !.enumFormatter = f[1], !.compositeTypeFormatter = f[2]] :
        b \in RowBodies, e \in SeqsUpTo(EnumChoices, MaxEnums), c \in CompositeLists,
        f \in {<<Undefined, Undefined>>, <<"prefix", "prefix">>,
                <<"numbered", Undefined>>, <<"qualify", "prefix">>}}

\* the top level of the source text and the schema option
TopLevelScenarios ==
    {[Base EXCEPT !.top = t, !.schemas = s, !.schema = n, !.enums = <<>>] :
        t \in SeqsUpTo(TopChoices, MaxTop), s \in SeqsUpTo(SchemaChoices, MaxSchemas),
        n \in {Undefined, "auth"}}

\* option values of every shape
OptionScenarios ==
    {[Base EXCEPT !.isString = st, !.relationships = r, !.inserts = n,
                  !.enumFormatter = ef, !.tableOrViewFormatter = tf,
                  !.functionFormatter = ff, !.order = o, !.schema = s] :
        st \in BOOLEAN, r \in {"true", Undefined, NotABoolean},
        n \in {"false", NotABoolean},
        ef \in {Undefined, NotAFunction, "returnsNumber", "extraParameter"},
        tf \in {Undefined, NotAFunction, "returnsNumber"},
        ff \in {"snake", "returnsNumber"},
        o \in {<<"Tables", "Enums">>, <<"Functions">>, <<>>},
        s \in {Undefined, "auth"}}

Scenarios ==
    GatingScenarios \cup OrderScenarios \cup RewriteScenarios
        \cup TopLevelScenarios \cup OptionScenarios

\* the options value of a scenario
Arguments(sc) ==
    [sourceText |-> [isString |-> sc.isString, declarations |-> Source(sc)],
     schema |-> sc.schema,
     enumFormatter |-> sc.enumFormatter,
     compositeTypeFormatter |-> sc.compositeTypeFormatter,
     functionFormatter |-> sc.functionFormatter,
     tableOrViewFormatter |-> sc.tableOrViewFormatter,
     relationships |-> sc.relationships, updates |-> sc.updates,
     inserts |-> sc.inserts, deletes |-> sc.deletes]

----------------------------------------------------------------------------
(* transformTypes, lines 42-271 *)

Init ==
    /\ \E sc \in Scenarios : args = Arguments(sc)
    /\ opts = NotParsed
    /\ sourceFile = <<>>
    /\ typeStrings = <<>>
    /\ enumNames = <<>>
    /\ compositeTypeNames = <<>>
    /\ kept = <<>>
    /\ parsedTypes = <<>>
    /\ substituted = {}
    /\ pc = "validate"
    /\ i = 1
    /\ k = 1
    /\ error = NoError
    /\ result = NoResult

\* lines 42-46: z.function().args(transformTypesOptionsSchema) parses the options
\* before the implementation runs
Validate ==
    /\ pc = "validate"
    /\ IF ValidOptions(args)
       THEN /\ opts' = ParsedOptions(args)
            /\ pc' = "parse"
            /\ error' = error
       ELSE /\ opts' = opts
            /\ pc' = "failed"
            /\ error' = ZodError("validate")
    /\ UNCHANGED <<args, sourceFile, typeStrings, enumNames, compositeTypeNames,
                   kept, parsedTypes, substituted, i, k, result>>

\* lines 58-66
Parse ==
    /\ pc = "parse"
    /\ sourceFile' = opts.sourceText.declarations
    /\ typeStrings' = <<>>
    /\ enumNames' = <<>>
    /\ compositeTypeNames' = <<>>
    /\ i' = 1
    /\ pc' = "walk"
    /\ UNCHANGED <<args, opts, kept, parsedTypes, substituted, k, error, result>>

\* lines 68-242: one call of the forEachChild callback
Visit ==
    /\ pc = "walk"
    /\ i <= Len(sourceFile)
    /\ LET st == Emit(TopLevelEvents(sourceFile[i], i),
                      [ts |-> typeStrings, en |-> enumNames,
                       cn |-> compositeTypeNames, err |-> NoError])
       IN IF st.err = NoError
          THEN /\ typeStrings' = st.ts
               /\ enumNames' = st.en
               /\ compositeTypeNames' = st.cn
               /\ i' = i + 1
               /\ UNCHANGED <<pc, error>>
          ELSE /\ pc' = "failed"
               /\ error' = st.err
               /\ UNCHANGED <<typeStrings, enumNames, compositeTypeNames, i>>
    /\ UNCHANGED <<args, opts, sourceFile, kept, parsedTypes, substituted, k, result>>

\* line 245
Filter(ts) == SelectSeq(ts, LAMBDA s : ~IncludesRecordNumber(s.text))

Texts(ts) == [x \in 1..Len(ts) |-> ts[x].text]

\* lines 244-246
FilterAndJoin ==
    /\ pc = "walk"
    /\ i > Len(sourceFile)
    /\ kept' = Filter(typeStrings)
    /\ parsedTypes' = Join(Texts(Filter(typeStrings)))
    /\ k' = 1
    /\ pc' = "enums"
    /\ UNCHANGED <<args, opts, sourceFile, typeStrings, enumNames, compositeTypeNames,
                   substituted, i, error, result>>

\* the two replaceAll calls of one loop iteration, lines 249-256 and 260-267
RewriteEntryDoubleOnly(text, category, entry) ==
    ReplaceAll(text, Key(DQ, opts.schema, category, entry.name), entry.formattedName)

RewriteEntry(text, category, entry) ==
    ReplaceAll(
        ReplaceAll(text, Key(DQ, opts.schema, category, entry.name), entry.formattedName),
        Key(SQ, opts.schema, category, entry.name), entry.formattedName)

\* lines 248-257
RewriteEnum ==
    /\ pc = "enums"
    /\ k <= Len(enumNames)
    /\ parsedTypes' = RewriteEntry(parsedTypes, "Enums", enumNames[k])
    /\ substituted' = IF parsedTypes' # parsedTypes
                      THEN substituted \cup {<<"Enums", k>>} ELSE substituted
    /\ k' = k + 1
    /\ UNCHANGED <<args, opts, sourceFile, typeStrings, enumNames, compositeTypeNames,
                   kept, pc, i, error, result>>

\* line 248: the loop over enumNames ends
EnumsDone ==
    /\ pc = "enums"
    /\ k > Len(enumNames)
    /\ k' = 1
    /\ pc' = "composites"
    /\ UNCHANGED <<args, opts, sourceFile, typeStrings, enumNames, compositeTypeNames,
                   kept, parsedTypes, substituted, i, error, result>>

\* lines 259-268
RewriteComposite ==
    /\ pc = "composites"
    /\ k <= Len(compositeTypeNames)
    /\ parsedTypes' = RewriteEntry(parsedTypes, "CompositeTypes", compositeTypeNames[k])
    /\ substituted' = IF parsedTypes' # parsedTypes
                      THEN substituted \cup {<<"CompositeTypes", k>>} ELSE substituted
    /\ k' = k + 1
    /\ UNCHANGED <<args, opts, sourceFile, typeStrings, enumNames, compositeTypeNames,
                   kept, pc, i, error, result>>

\* line 270
Return ==
    /\ pc = "composites"
    /\ k > Len(compositeTypeNames)
    /\ result' = parsedTypes
    /\ pc' = "done"
    /\ UNCHANGED <<args, opts, sourceFile, typeStrings, enumNames, compositeTypeNames,
                   kept, parsedTypes, substituted, i, k, error>>

Next ==
    \/ Validate
    \/ Parse
    \/ Visit
    \/ FilterAndJoin
    \/ RewriteEnum
    \/ EnumsDone
    \/ RewriteComposite
    \/ Return

Spec == Init /\ [][Next]_vars

----------------------------------------------------------------------------
(* Vocabulary of the properties *)

AfterWalk == pc \in {"enums", "composites", "done"}

\* the schema option as the implementation sees it
SelectedSchema == IF args.schema = Undefined THEN "public" ELSE args.schema

InputDeclarations == args.sourceText.declarations

\* the members of a top-level declaration named Database
DeclaredMembers(n) ==
    IF n.name # "Database" THEN <<>>
    ELSE IF n.kind = "InterfaceDeclaration" THEN n.kids
    ELSE IF n.kids[1].kind = "TypeLiteral" THEN n.kids[1].kids
    ELSE <<>>

\* no Database declaration, or none with a member named like the schema option
NotFound ==
    \A t \in 1..Len(InputDeclarations) :
        \A m \in 1..Len(DeclaredMembers(InputDeclarations[t])) :
            DeclaredMembers(InputDeclarations[t])[m].name # SelectedSchema

\* the text of the top-level `type Json` aliases that pass the filter, joined
JsonDeclarations ==
    SelectSeq(InputDeclarations,
              LAMBDA n : n.kind = "TypeAliasDeclaration" /\ n.name = "Json")

JsonOnlyText ==
    Join(Texts(SelectSeq(JsonDeclarations, LAMBDA n : ~IncludesRecordNumber(n.text))))

SchemaAt(t, m) == DatabaseMembers(sourceFile[t])[m]
GroupAt(t, m, g) == Members(SchemaAt(t, m))[g]
EntryAt(t, m, g, e) == Members(GroupAt(t, m, g))[e]
SubEntryAt(t, m, g, e, o) == Members(EntryAt(t, m, g, e))[o]

\* the positions of all sub-entries (operations, function groupings) in the source
SubEntryPositions ==
    UNION {UNION {UNION {UNION {
        {<<t, m, g, e, o>> : o \in 1..Len(Members(EntryAt(t, m, g, e)))} :
            e \in 1..Len(Members(GroupAt(t, m, g)))} :
            g \in 1..Len(Members(SchemaAt(t, m)))} :
            m \in 1..Len(DatabaseMembers(sourceFile[t]))} :
            t \in 1..Len(sourceFile)}

OperationNames == {"Row", "Insert", "Update", "Delete", "Relationships"}

\* a sub-operation the gating claim speaks about: one of the five operations of
\* a table or view of the selected schema, with a record body (a tuple for
\* Relationships)
IsGatedCase(p) ==
    LET s == SchemaAt(p[1], p[2])
        g == GroupAt(p[1], p[2], p[3])
        e == EntryAt(p[1], p[2], p[3], p[4])
        o == SubEntryAt(p[1], p[2], p[3], p[4], p[5])
    IN /\ IsProp(s) /\ s.name = opts.schema
       /\ IsProp(g) /\ g.idName /\ g.name \in {"Tables", "Views"}
       /\ IsProp(e) /\ IsProp(o)
       /\ o.name \in OperationNames
       /\ \/ o.kids[1].kind = "TypeLiteral"
          \/ o.name = "Relationships" /\ o.kids[1].kind = "TupleType"

FlagOf(operation) ==
    CASE operation = "Insert" -> opts.inserts
      [] operation = "Update" -> opts.updates
      [] operation = "Delete" -> opts.deletes
      [] operation = "Relationships" -> opts.relationships
      [] OTHER -> TRUE

\* typeStrings holds the declaration of the sub-operation at position p, named
\* by the table-or-view formatter
CollectedAt(p) ==
    LET e == EntryAt(p[1], p[2], p[3], p[4])
        o == SubEntryAt(p[1], p[2], p[3], p[4], p[5])
    IN \E x \in 1..Len(typeStrings) :
          /\ typeStrings[x].from = p
          /\ typeStrings[x].text =
                Declaration(tableOrViewFormatterResult(opts.tableOrViewFormatter,
                                                       e.name, o.name),
                            o.kids[1].text)

----------------------------------------------------------------------------
(* C1 *)

\* C1 as stated: when the source text has no Database declaration, or its
\* Database declaration has no member named like the schema option, the call
\* returns the empty string.
C1_NotFoundReturnsEmpty ==
    (pc = "done" /\ NotFound) => result = <<>>

\* C1 as amended: in the not-found case the call returns exactly the text of the
\* top-level `type Json` aliases that pass the Record<number filter (joined, the
\* empty string when there is none), and it raises nothing once the options
\* have passed validation.
C1_NotFoundReturnsJsonOnly ==
    /\ (pc = "done" /\ NotFound) => result = JsonOnlyText
    /\ (pc = "failed" /\ NotFound) => ~ValidOptions(args)

\* a call that found no schema `auth` in a source with a Database declaration and
\* a Json alias, and returned
C1_Witness ==
    /\ pc = "done"
    /\ NotFound
    /\ SelectedSchema = "auth"
    /\ \E t \in 1..Len(InputDeclarations) : Len(DeclaredMembers(InputDeclarations[t])) > 0
    /\ JsonOnlyText # <<>>
    /\ result = JsonOnlyText

----------------------------------------------------------------------------
(* C2 *)

\* C2: once the walk is over, the declaration of a sub-operation O (one of Row,
\* Insert, Update, Delete, Relationships, with a record body or, for
\* Relationships, a tuple) of a table or view T of the selected schema has been
\* collected under the name tableOrViewFormatter(T, O) if and only if O is Row
\* or the flag of O is true.
C2_OperationGating ==
    AfterWalk =>
        \A p \in SubEntryPositions :
            IsGatedCase(p) =>
                (CollectedAt(p) <=>
                    FlagOf(SubEntryAt(p[1], p[2], p[3], p[4], p[5]).name))

\* a finished call with inserts on and updates off that collected Row and Insert
\* of a table and skipped its Update
C2_Witness ==
    /\ pc = "done"
    /\ opts.inserts /\ ~opts.updates
    /\ \E p \in SubEntryPositions, q \in SubEntryPositions, r \in SubEntryPositions :
          /\ IsGatedCase(p) /\ IsGatedCase(q) /\ IsGatedCase(r)
          /\ SubEntryAt(p[1], p[2], p[3], p[4], p[5]).name = "Insert" /\ CollectedAt(p)
          /\ SubEntryAt(q[1], q[2], q[3], q[4], q[5]).name = "Update" /\ ~CollectedAt(q)
          /\ SubEntryAt(r[1], r[2], r[3], r[4], r[5]).name = "Row" /\ CollectedAt(r)

----------------------------------------------------------------------------
(* Vocabulary of the rewriting properties *)

Categories == {"Enums", "CompositeTypes"}

TableOf(category) == IF category = "Enums" THEN enumNames ELSE compositeTypeNames

\* the reference table: the entries of enumNames, then of compositeTypeNames
References ==
    [x \in 1..Len(enumNames) |-> [category |-> "Enums", entry |-> enumNames[x]]]
    \o [x \in 1..Len(compositeTypeNames) |->
           [category |-> "CompositeTypes", entry |-> compositeTypeNames[x]]]

\* the text before the rewrite pass
Joined == Join(Texts(kept))

Openers ==
    {Opener(q, s, c) : q \in Quotes, s \in {"public", "auth"}, c \in Categories}

\* every formattedName is a single identifier
IdentifierNames ==
    \A x \in 1..Len(References) :
        /\ Len(References[x].entry.formattedName) = 1
        /\ References[x].entry.formattedName[1] \notin Openers \cup {Closer(DQ), Closer(SQ)}

\* no qualified path sits inside the brackets of another one
NoNestedReference(text) ==
    \A p \in 1..(Len(text) - 1) : text[p] \in Openers => text[p + 1] \notin Openers

\* entries of one category with the same name have the same formattedName
NoConflictingDuplicates ==
    \A x \in 1..Len(References), y \in 1..Len(References) :
        (References[x].category = References[y].category
            /\ References[x].entry.name = References[y].entry.name)
        => References[x].entry.formattedName = References[y].entry.formattedName

\* some qualified path of a recorded enum or composite type occurs in the text
DanglingReference(text) ==
    \E x \in 1..Len(References), q \in Quotes :
        Includes(text, Key(q, opts.schema, References[x].category,
                           References[x].entry.name))

Indexes(category, name) ==
    {x \in 1..Len(TableOf(category)) : TableOf(category)[x].name = name}

Pick(S, which) ==
    IF which = "first" THEN CHOOSE x \in S : \A y \in S : x <= y
    ELSE CHOOSE x \in S : \A y \in S : x >= y

\* the category and quote of the reference the text starts with, if it starts
\* with a reference to a recorded name
LeadingReference(text) ==
    {cq \in Categories \X Quotes :
        /\ Len(text) >= 3
        /\ text[1] = Opener(cq[2], opts.schema, cq[1])
        /\ text[3] = Closer(cq[2])
        /\ Indexes(cq[1], text[2]) # {}}

\* one left-to-right pass replacing every reference to a recorded name by the
\* formattedName of the first (or last) entry recorded for that name
RECURSIVE SubstituteOnce(_, _)
SubstituteOnce(text, which) ==
    IF text = <<>> THEN <<>>
    ELSE IF LeadingReference(text) # {}
         THEN LET cq == CHOOSE c \in LeadingReference(text) : TRUE
              IN TableOf(cq[1])[Pick(Indexes(cq[1], text[2]), which)].formattedName
                     \o SubstituteOnce(SubSeq(text, 4, Len(text)), which)
         ELSE <<Head(text)>> \o SubstituteOnce(Tail(text), which)

\* both replaceAll calls of one entry, the spelling with quote q first
ApplyEntry(text, r, q) ==
    LET other == IF q = DQ THEN SQ ELSE DQ
    IN ReplaceAll(
           ReplaceAll(text, Key(q, opts.schema, r.category, r.entry.name),
                      r.entry.formattedName),
           Key(other, opts.schema, r.category, r.entry.name), r.entry.formattedName)

\* <<the entries applied, the text>> after j entries applied in any order
RECURSIVE Reach(_)
Reach(j) ==
    IF j = 0 THEN {<<{}, Joined>>}
    ELSE UNION {{<<p[1] \cup {x}, ApplyEntry(p[2], References[x], q)>> :
                    x \in (1..Len(References)) \ p[1], q \in Quotes} :
                p \in Reach(j - 1)}

\* the texts the rewrite pass yields over all orders of the entries and of the
\* two spellings
AnyOrderResults == {p[2] : p \in Reach(Len(References))}

----------------------------------------------------------------------------
(* C3 *)

\* C3 as stated: the returned text contains neither spelling of the qualified
\* path of any recorded enum or composite type.
C3_NoQualifiedPathSurvives ==
    pc = "done" => ~DanglingReference(result)

\* C3 as amended: nothing is rewritten before the walk is over; and when every
\* formattedName is a single identifier and no qualified path is nested inside
\* another one, the returned text contains neither spelling of the qualified
\* path of any recorded enum or composite type.
C3_NoQualifiedPathSurvivesPlain ==
    /\ pc \in {"validate", "parse", "walk"} => (parsedTypes = <<>> /\ substituted = {})
    /\ (pc = "done" /\ IdentifierNames /\ NoNestedReference(Joined))
           => ~DanglingReference(result)

\* a finished call with a renaming enum formatter whose collected text held both
\* spellings of an enum reference and a composite reference, all rewritten
C3_Witness ==
    /\ pc = "done"
    /\ opts.enumFormatter = "prefix"
    /\ IdentifierNames /\ NoNestedReference(Joined)
    /\ Includes(Joined, Key(DQ, opts.schema, "Enums", "mood"))
    /\ Includes(Joined, Key(SQ, opts.schema, "Enums", "mood"))
    /\ \E x \in 1..Len(compositeTypeNames) : <<"CompositeTypes", x>> \in substituted
    /\ \E x \in 1..Len(enumNames) : <<"Enums", x>> \in substituted
    /\ ~DanglingReference(result)

----------------------------------------------------------------------------
(* C9 *)

UniqueNames(table) ==
    \A x \in 1..Len(table), y \in 1..Len(table) :
        table[x].name = table[y].name => x = y

\* the walk's declarations of one category, in the order they were collected
CollectedOf(cat) == SelectSeq(typeStrings, LAMBDA c : c.cat = cat)

\* the table holds one entry per collected declaration, in walk order
Mirrors(table, collected) ==
    /\ Len(table) = Len(collected)
    /\ \A x \in 1..Len(table) :
          /\ table[x].name =
                EntryAt(collected[x].from[1], collected[x].from[2],
                        collected[x].from[3], collected[x].from[4]).name
          /\ SubSeq(collected[x].text, 1, Len(table[x].formattedName) + 2) =
                <<ExportType>> \o table[x].formattedName \o <<Equals>>

\* C9 as stated: after the walk each table holds at most one entry per name, and
\* every reference to a name is replaced by the formattedName of the last
\* declaration of that name.
C9_UniqueLastWins ==
    /\ AfterWalk => (UniqueNames(enumNames) /\ UniqueNames(compositeTypeNames))
    /\ (pc = "done" /\ IdentifierNames /\ NoNestedReference(Joined))
           => result = SubstituteOnce(Joined, "last")

\* C9 as amended: after the walk each table holds one entry per collected
\* declaration, in walk order (a name declared twice has two entries); and when
\* every formattedName is a single identifier and no qualified path is nested
\* inside another one, every reference to a name is replaced by the
\* formattedName of the first declaration of that name.
C9_EntryPerDeclarationFirstWins ==
    /\ AfterWalk => /\ Mirrors(enumNames, CollectedOf("enum"))
                    /\ Mirrors(compositeTypeNames, CollectedOf("composite"))
    /\ (pc = "done" /\ IdentifierNames /\ NoNestedReference(Joined))
           => result = SubstituteOnce(Joined, "first")

\* a finished call whose schema declared the enum `mood` twice, formatted to two
\* different names, where the first entry rewrote the references and the second
\* found none left
C9_Witness ==
    /\ pc = "done"
    /\ Len(enumNames) >= 2
    /\ enumNames[1].name = enumNames[2].name
    /\ enumNames[1].formattedName # enumNames[2].formattedName
    /\ IdentifierNames /\ NoNestedReference(Joined)
    /\ <<"Enums", 1>> \in substituted
    /\ <<"Enums", 2>> \notin substituted
    /\ result = SubstituteOnce(Joined, "first")

----------------------------------------------------------------------------
(* C10 *)

\* C10 as stated: whatever the order in which the entries of the reference table
\* and the two spellings of each are applied, the text is the returned one.
C10_AnyOrderSameText ==
    pc = "done" => \A t \in AnyOrderResults : t = result

\* C10 as amended: the same, provided every formattedName is a single
\* identifier, no qualified path is nested inside another one, and entries
\* recorded for the same name have the same formattedName.
C10_AnyOrderSameTextPlain ==
    (pc = "done" /\ IdentifierNames /\ NoNestedReference(Joined)
        /\ NoConflictingDuplicates)
    => \A t \in AnyOrderResults : t = result

\* a finished call with at least two entries that each rewrote a reference
C10_Witness ==
    /\ pc = "done"
    /\ IdentifierNames /\ NoNestedReference(Joined) /\ NoConflictingDuplicates
    /\ Len(enumNames) >= 1 /\ Len(compositeTypeNames) >= 1
    /\ Cardinality(substituted) >= 2
    /\ AnyOrderResults = {result}

----------------------------------------------------------------------------
(* C6 *)

CategoryRank(cat) ==
    CASE cat = "table" -> 1
      [] cat = "enum" -> 2
      [] cat = "composite" -> 3
      [] cat = "function" -> 4
      [] OTHER -> 0

\* position a comes before position b in the source text
Before(a, b) ==
    \E p \in 1..5 : a[p] < b[p] /\ \A r \in 1..(p - 1) : a[r] = b[r]

\* C6 as stated: the declarations kept for the output are in group order, tables
\* and views before enums before composite types before functions.
C6_GroupOrder ==
    AfterWalk =>
        \A x \in 1..Len(kept), y \in 1..Len(kept) :
            (x < y /\ kept[x].cat # "json" /\ kept[y].cat # "json")
            => CategoryRank(kept[x].cat) <= CategoryRank(kept[y].cat)

\* C6 as amended: the declarations kept for the output are in source order: the
\* top-level declarations in their order, the groupings in the order they have
\* inside the schema, the entries of a grouping in their order; the text handed
\* to the rewrite pass is their join in that order.
C6_SourceOrder ==
    /\ AfterWalk =>
          \A x \in 1..Len(kept), y \in 1..Len(kept) :
              x < y => Before(kept[x].from, kept[y].from)
    /\ (pc = "enums" /\ k = 1) => parsedTypes = Joined

\* a finished call on a schema that lists Enums before Tables: the enum's
\* declaration is kept before the table's
C6_Witness ==
    /\ pc = "done"
    /\ \E x \in 1..Len(kept), y \in 1..Len(kept) :
          /\ x < y
          /\ kept[x].cat = "enum" /\ kept[y].cat = "table"
          /\ Before(kept[x].from, kept[y].from)

----------------------------------------------------------------------------
(* C4 *)

\* C4: no declaration of the returned text contains `Record<number`.
C4_NoNumericRecordInOutput ==
    pc = "done" => ~IncludesRecordNumber(result)

----------------------------------------------------------------------------
(* C5 *)

\* C5: the returned text contains the source text of every `Json` declaration
\* of the input, character for character.
C5_JsonVerbatim ==
    pc = "done" =>
        \A x \in 1..Len(JsonDeclarations) : Includes(result, JsonDeclarations[x].text)

----------------------------------------------------------------------------
(* C7 *)

\* an options value of the documented shape: a string, booleans (or nothing),
\* formatters taking the documented arguments and returning a string
DocumentedShape(a) ==
    /\ a.sourceText.isString
    /\ \A f \in FlagNames : a[f] \in {"true", "false", Undefined}
    /\ \A f \in FormatterNames :
          a[f] \notin {NotAFunction, "returnsNumber", "extraParameter"}

\* C7: an options value that does not have the documented shape is refused
\* before the source text is parsed, and no validation error is raised once
\* parsing or the walk has begun.
C7_FailFast ==
    /\ ~DocumentedShape(args) => pc \in {"validate", "failed"}
    /\ error.name = "ZodError" => error.at = "validate"

----------------------------------------------------------------------------
(* C8 *)

\* C8: when the rewrite pass has put the formattedName of an enum or composite
\* type in place of a qualified path, the returned text also holds that
\* entity's declaration `export type <formattedName> = `.
C8_RewrittenNamesAreDeclared ==
    pc = "done" =>
        \A s \in substituted :
            Includes(result,
                     <<ExportType>> \o TableOf(s[1])[s[2]].formattedName \o <<Equals>>)

====
